---- MODULE Spec2Model ----
(***************************************************************************)
(* Model of the robbery dashboards app.py and web.py: the loading and      *)
(* cleaning of robos_tot_final.csv, the aggregates built from it, the      *)
(* handling of an uploaded prediction table, the forecast files web.py     *)
(* reads, and the st.cache_data entries that outlive a script run.         *)
(*                                                                         *)
(* A data frame is a sequence of records (its rows, in row order).  A      *)
(* text cell is a string, a VIOLENCIA cell a sequence of characters (so    *)
(* that strip and upper act on it), a date cell a tuple <<y, m, d>>.       *)
(* Columns carry the dtype of the data contract: VIOLENCIA is text, HORA   *)
(* is integral.                                                            *)
(***************************************************************************)
EXTENDS Integers, Sequences, FiniteSets, TLC

VARIABLES
    file,             \* robos_tot_final.csv on disk: [status, rows]
    uploaded_file,    \* what the user put in the sidebar uploader
    pc,               \* position of the app.py script run
    df,               \* app.py: cleaned records
    df_mensual,       \* app.py: monthly aggregate
    df_coords,        \* app.py: one row per zone
    df_predicciones,  \* app.py: parsed upload
    df_mapa_pred,     \* app.py: overlay (predictions joined to df_coords)
    top_cuadrantes,   \* app.py: top rows of the overlay
    rendered,         \* app.py: streamlit elements emitted in this run
    exception,        \* app.py: uncaught exception that ended the run
    called,           \* app.py: functions invoked in this run
    wpc,              \* position of the web.py script run
    wdf,              \* web.py: loaded records
    page,             \* web.py: selected view
    tipos_robo,       \* web.py: multiselect value
    anios,            \* web.py: slider value <<lo, hi>>
    df_filtrado,      \* web.py: filtered records
    wrendered,        \* web.py: streamlit elements emitted in this run
    wexception,       \* web.py: uncaught exception that ended the run
    exportados,       \* the forecast tables and the metrics sidecar on disk
    pred_data,        \* web.py: forecast table per category, or None
    metricas_modelos, \* web.py: categories the sidecar has metrics for
    cuadrante_coords, \* web.py: mean coordinates per zone
    cache,            \* app.py: entries of st.cache_data, kept across runs
    wcache            \* web.py: entries of st.cache_data, kept across runs

appVars == <<pc, df, df_mensual, df_coords, df_predicciones, df_mapa_pred,
             top_cuadrantes, rendered, exception, called, cache>>
predVars == <<pred_data, metricas_modelos, cuadrante_coords>>
webVars == <<wpc, wdf, page, tipos_robo, anios, df_filtrado, wrendered, wexception,
             predVars, wcache>>
disk == <<file, uploaded_file, exportados>>
vars == <<disk, appVars, webVars>>

(***************************************************************************)
(* Bounds of the model                                                     *)
(***************************************************************************)
MaxRows == 3        \* rows of the source file
MaxViolRows == 1    \* rows of the source file when VIOLENCIA ranges over all texts
MaxPad == 1         \* blanks on either side of a raw VIOLENCIA text
MaxPredRows == 3    \* rows of an uploaded prediction table

(***************************************************************************)
(* Missing values                                                          *)
(***************************************************************************)
NULL == "<NA>"          \* a missing text cell (NaN in an object column)
NaN == 0 - 1            \* a missing numeric cell
NaT == <<>>             \* a missing or unparseable timestamp
NA_STR == <<"<NA>">>    \* a missing VIOLENCIA cell

(***************************************************************************)
(* Generic helpers                                                         *)
(***************************************************************************)
Range(s) == {s[i] : i \in DOMAIN s}

SeqsUpTo(S, n) == UNION {[1..k -> S] : k \in 0..n}

Indices(s, P(_)) == {i \in DOMAIN s : P(s[i])}

Count(s, P(_)) == Cardinality(Indices(s, P))

SumSeq(s, F(_)) ==
    LET acc[i \in 0..Len(s)] == IF i = 0 THEN 0 ELSE acc[i - 1] + F(s[i])
    IN  acc[Len(s)]

Head_n(s, n) == IF Len(s) <= n THEN s ELSE SubSeq(s, 1, n)

\* Text order (the order Python and pandas sort labels in), as a rank.
Lexicographic ==
    <<"A", "ANGEL", "B", "C", "COLON", "D", "DIANA",
      "ROBO A CASA HABITACION", "ROBO A NEGOCIO", "ROBO DE VEHICULO">>

TextRank(t) == CHOOSE i \in DOMAIN Lexicographic : Lexicographic[i] = t

TextLess(a, b) == TextRank(a) < TextRank(b)

\* The elements of S as a sequence ascending in Less (a strict total order on S).
SortedSeq(S, Less(_, _)) ==
    [i \in 1..Cardinality(S) |->
        CHOOSE x \in S : Cardinality({y \in S : Less(y, x)}) = i - 1]

(***************************************************************************)
(* app.py, load_data: parsing and dropping rows (lines 22-31)              *)
(***************************************************************************)
DaysIn(y, m) ==
    IF m = 2 THEN (IF y % 4 = 0 /\ (y % 100 # 0 \/ y % 400 = 0) THEN 29 ELSE 28)
    ELSE IF m \in {4, 6, 9, 11} THEN 30 ELSE 31

\* pd.to_datetime(..., errors='coerce'): a well-formed date, or NaT.
to_datetime_coerce(raw) ==
    IF /\ Len(raw) = 3
       /\ raw[2] \in 1..12
       /\ raw[3] \in 1..DaysIn(raw[1], raw[2])
    THEN raw
    ELSE NaT

parse_FECHA(rows) ==
    [i \in DOMAIN rows |-> [rows[i] EXCEPT !.FECHA = to_datetime_coerce(@)]]

dropna_ignores_LONGITUD(rows) ==
    SelectSeq(rows, LAMBDA r : r.FECHA # NaT /\ r.LATITUD # NaN)

\* df.dropna(subset=['FECHA', 'LATITUD', 'LONGITUD'])
dropna_subset(rows) ==
    SelectSeq(rows, LAMBDA r : r.FECHA # NaT /\ r.LATITUD # NaN /\ r.LONGITUD # NaN)

(***************************************************************************)
(* app.py, load_data: derived columns (lines 34-37)                        *)
(***************************************************************************)
SENTINEL == 99

\* dt.to_period('M'): the year and month of a timestamp.
to_period_M(ts) == <<ts[1], ts[2]>>

\* replace(99, np.nan).astype('Int64')
clean_HORA(h) == IF h = SENTINEL THEN NaN ELSE h

Whitespace == {" ", "\t"}

RECURSIVE lstrip(_)
lstrip(s) ==
    IF s # <<>> /\ Head(s) \in Whitespace THEN lstrip(Tail(s)) ELSE s

RECURSIVE rstrip(_)
rstrip(s) ==
    IF s # <<>> /\ s[Len(s)] \in Whitespace THEN rstrip(SubSeq(s, 1, Len(s) - 1)) ELSE s

UpperChar(c) ==
    CASE c = "s" -> "S"
      [] c = "i" -> "I"
      [] c = "n" -> "N"
      [] c = "o" -> "O"
      [] OTHER -> c

str_no_strip(v) == v

\* Series.str.strip(): a missing cell stays missing.
str_strip(v) == IF v = NA_STR THEN NA_STR ELSE rstrip(lstrip(v))

\* Series.str.upper(): a missing cell stays missing.
str_upper(v) == IF v = NA_STR THEN NA_STR ELSE [i \in DOMAIN v |-> UpperChar(v[i])]

SI == <<"S", "I">>
NO == <<"N", "O">>
DESCONOCIDA == <<"D", "E", "S", "C", "O", "N", "O", "C", "I", "D", "A">>

\* Lines 36-37: strip, upper, then everything outside {SI, NO} becomes DESCONOCIDA.
clean_VIOLENCIA(v) ==
    LET u == str_upper(str_strip(v))
    IN  IF u \in {SI, NO} THEN u ELSE DESCONOCIDA

add_features(rows) ==
    [i \in DOMAIN rows |->
        [FECHA_MES |-> to_period_M(rows[i].FECHA),
         HORA_CLEAN |-> clean_HORA(rows[i].HORA)]
        @@ [rows[i] EXCEPT !.VIOLENCIA = clean_VIOLENCIA(@)]]

(***************************************************************************)
(* app.py, load_data: aggregates (lines 40-47)                             *)
(***************************************************************************)
PeriodLess(a, b) == a[1] < b[1] \/ (a[1] = b[1] /\ a[2] < b[2])

MesTipoLess(k1, k2) ==
    PeriodLess(k1[1], k2[1]) \/ (k1[1] = k2[1] /\ TextLess(k1[2], k2[2]))

\* groupby(['FECHA_MES', 'TIPO']).size(): rows with a missing key form no group.
\* Line 41 turns the period label into the timestamp of the month's first day.
groupby_FECHA_MES_TIPO(rows) ==
    LET keys == {<<r.FECHA_MES, r.TIPO>> : r \in {x \in Range(rows) : x.TIPO # NULL}}
        ks == SortedSeq(keys, MesTipoLess)
    IN  [i \in DOMAIN ks |->
            [FECHA_MES |-> <<ks[i][1][1], ks[i][1][2], 1>>,
             TIPO |-> ks[i][2],
             Total_Robos |->
                Count(rows, LAMBDA r : r.FECHA_MES = ks[i][1] /\ r.TIPO = ks[i][2])]]

\* Counts of the non-missing labels of a column.
Freq(labels, v) == Count(labels, LAMBDA x : x = v)

Modes(labels) ==
    {v \in Range(labels) \ {NULL} :
        \A w \in Range(labels) \ {NULL} : Freq(labels, w) <= Freq(labels, v)}

mode_first_seen(labels) ==
    LET first(v) == CHOOSE i \in DOMAIN labels :
                        labels[i] = v /\ \A j \in 1..(i - 1) : labels[j] # v
    IN  SortedSeq(Modes(labels), LAMBDA a, b : first(a) < first(b))

\* Series.mode(): the most frequent non-missing labels, sorted.
mode(labels) == SortedSeq(Modes(labels), TextLess)

column(rows, c) == [i \in DOMAIN rows |-> rows[i][c]]

\* The mean of a column, kept exact as num/den.
mean(rows, c) == [num |-> SumSeq(rows, LAMBDA r : r[c]), den |-> Len(rows)]

zone_rows(rows, z) == SelectSeq(rows, LAMBDA r : r.CUADRANTE = z)

zones_of(rows) == SortedSeq({r.CUADRANTE : r \in Range(rows)} \ {NULL}, TextLess)

\* x.mode()[0] of line 46 raises KeyError when a zone has no district at all.
agg_raises(rows) ==
    \E z \in Range(zones_of(rows)) : mode(column(zone_rows(rows, z), "DISTRITO")) = <<>>

\* groupby('CUADRANTE').agg(...).reset_index(): one row per zone, sorted by zone.
groupby_CUADRANTE(rows) ==
    LET zs == zones_of(rows)
    IN  [i \in DOMAIN zs |->
            [CUADRANTE |-> zs[i],
             LATITUD_AVG |-> mean(zone_rows(rows, zs[i]), "LATITUD"),
             LONGITUD_AVG |-> mean(zone_rows(rows, zs[i]), "LONGITUD"),
             DISTRITO |-> mode(column(zone_rows(rows, zs[i]), "DISTRITO"))[1]]]

empty_result ==
    [exception |-> "none", st_error |-> FALSE,
     df |-> <<>>, df_mensual |-> <<>>, df_coords |-> <<>>]

\* load_data as a whole: what it returns, reports, or raises.
load_data(f) ==
    IF f.status = "missing" THEN [empty_result EXCEPT !.st_error = TRUE]
    ELSE IF f.status = "unreadable" THEN [empty_result EXCEPT !.exception = "PermissionError"]
    ELSE LET kept == add_features(dropna_subset(parse_FECHA(f.rows)))
         IN  IF agg_raises(kept) THEN [empty_result EXCEPT !.exception = "KeyError"]
             ELSE [exception |-> "none", st_error |-> FALSE,
                   df |-> kept,
                   df_mensual |-> groupby_FECHA_MES_TIPO(kept),
                   df_coords |-> groupby_CUADRANTE(kept)]

(***************************************************************************)
(* app.py, create_figures (lines 52-97) and the KPI block (lines 144-175)  *)
(***************************************************************************)
\* groupby(['TIPO', 'VIOLENCIA']).size(): the set of (TIPO, VIOLENCIA, Conteo) rows.
df_tipo_violencia(rows) ==
    {[TIPO |-> r.TIPO, VIOLENCIA |-> r.VIOLENCIA,
      Conteo |-> Count(rows, LAMBDA x : x.TIPO = r.TIPO /\ x.VIOLENCIA = r.VIOLENCIA)] :
        r \in {x \in Range(rows) : x.TIPO # NULL}}

\* df.dropna(subset=['HORA_CLEAN']): the rows of the hourly histogram.
df_horaria(rows) == SelectSeq(rows, LAMBDA r : r.HORA_CLEAN # NaN)

\* df['TIPO'].mode()[0] (line 146) raises KeyError when no TIPO is present.
kpi_raises(rows) == mode(column(rows, "TIPO")) = <<>>

\* df['HORA_CLEAN'].mode()[0] (line 174) raises KeyError when no hour is known.
hora_pico_raises(rows) == df_horaria(rows) = <<>>

(***************************************************************************)
(* app.py, create_prediction_map (lines 100-126) and the upload block      *)
(* (lines 183-218).  A table is [columns, rows]; a cell of a column the    *)
(* table does not have is NaN.                                             *)
(***************************************************************************)
required_cols == {"CUADRANTE", "PREDICCION_ROBOS_MES_N"}

schema_any(columns) == \E c \in required_cols : c \in columns

\* all(col in df_predicciones.columns for col in required_cols)
schema_ok(columns) == \A c \in required_cols : c \in columns

merge_left(pred_rows, coords) ==
    [i \in DOMAIN pred_rows |->
        IF \E c \in Range(coords) : c.CUADRANTE = pred_rows[i].CUADRANTE
        THEN pred_rows[i] @@
             (CHOOSE c \in Range(coords) : c.CUADRANTE = pred_rows[i].CUADRANTE)
        ELSE pred_rows[i] @@
             [LATITUD_AVG |-> [num |-> NaN, den |-> 1],
              LONGITUD_AVG |-> [num |-> NaN, den |-> 1], DISTRITO |-> NULL]]

\* pd.merge(df_predicciones, df_coords, on='CUADRANTE', how='inner'): the
\* prediction rows, in their order, that have a zone row, each extended by it
\* (df_coords holds one row per zone, so a prediction row matches at most one).
merge_inner(pred_rows, coords) ==
    LET hit == SelectSeq(pred_rows,
                   LAMBDA p : \E c \in Range(coords) : c.CUADRANTE = p.CUADRANTE)
    IN  [i \in DOMAIN hit |->
            hit[i] @@ (CHOOSE c \in Range(coords) : c.CUADRANTE = hit[i].CUADRANTE)]

\* px.scatter_mapbox(color="PREDICCION_ROBOS", ...) raises ValueError when the
\* frame has no such column.
map_raises(columns) == "PREDICCION_ROBOS" \notin columns

TOP_N == 5
NARRATIVE_N == 3

\* sort_values(by='PREDICCION_ROBOS_MES_N', ascending=False): every order of the
\* rows that is descending in the column; the order of equal counts is whatever
\* the (unstable) sort leaves.
sort_values_desc(rows) ==
    {s \in {[i \in DOMAIN rows |-> rows[p[i]]] : p \in Permutations(DOMAIN rows)} :
        \A i \in DOMAIN s : \A j \in DOMAIN s :
            i < j => s[i].PREDICCION_ROBOS_MES_N >= s[j].PREDICCION_ROBOS_MES_N}

(***************************************************************************)
(* app.py, the script run (lines 133-218), one action per block            *)
(***************************************************************************)
Crash(e) ==
    /\ pc' = "crashed"
    /\ exception' = e

FILE_PATH == "robos_tot_final.csv"

\* @st.cache_data: an entry is looked up by the arguments of the call alone.
cache_hit(entries, args) == \E e \in Range(entries) : e.args = args

cache_get(entries, args) == (CHOOSE e \in Range(entries) : e.args = args).value

\* Line 133: df, df_mensual, df_coords = load_data('robos_tot_final.csv').  The
\* body runs on a cache miss only; what it returns is stored, and a stored
\* result is returned together with the st.error it had emitted.  Nothing is
\* stored when the body raises.
LoadData ==
    /\ pc = "load"
    /\ called' = called \cup {"load_data"}
    /\ LET hit == cache_hit(cache, <<FILE_PATH>>)
           r == IF hit THEN cache_get(cache, <<FILE_PATH>>) ELSE load_data(file)
       IN  IF r.exception # "none"
           THEN /\ Crash(r.exception)
                /\ UNCHANGED <<df, df_mensual, df_coords, rendered, cache>>
           ELSE /\ cache' = IF hit THEN cache
                            ELSE Append(cache, [args |-> <<FILE_PATH>>, value |-> r])
                /\ df' = r.df
                /\ df_mensual' = r.df_mensual
                /\ df_coords' = r.df_coords
                /\ rendered' = IF r.st_error THEN rendered \cup {"error_file_not_found"}
                               ELSE rendered
                /\ pc' = "guard"
                /\ UNCHANGED exception
    /\ UNCHANGED <<disk, df_predicciones, df_mapa_pred, top_cuadrantes>>
    /\ UNCHANGED webVars

\* Lines 136-139: nothing below runs on an empty frame.
Guard ==
    /\ pc = "guard"
    /\ IF df = <<>>
       THEN pc' = "done" /\ UNCHANGED rendered
       ELSE pc' = "kpi" /\ rendered' = rendered \cup {"title"}
    /\ UNCHANGED <<disk, cache, df, df_mensual, df_coords, df_predicciones,
                   df_mapa_pred, top_cuadrantes, exception, called>>
    /\ UNCHANGED webVars

\* Lines 141-152: the three KPI metrics.
KPIs ==
    /\ pc = "kpi"
    /\ IF kpi_raises(df)
       THEN Crash("KeyError") /\ UNCHANGED rendered
       ELSE /\ pc' = "figures"
            /\ rendered' = rendered \cup {"kpis"}
            /\ UNCHANGED exception
    /\ UNCHANGED <<disk, cache, df, df_mensual, df_coords, df_predicciones,
                   df_mapa_pred, top_cuadrantes, called>>
    /\ UNCHANGED webVars

\* Line 155: create_figures(df, df_mensual)
CreateFigures ==
    /\ pc = "figures"
    /\ called' = called \cup {"create_figures"}
    /\ pc' = "section1"
    /\ UNCHANGED <<disk, cache, df, df_mensual, df_coords, df_predicciones,
                   df_mapa_pred, top_cuadrantes, rendered, exception>>
    /\ UNCHANGED webVars

\* Lines 157-177: the three charts; the peak hour is read after the last chart.
Section1 ==
    /\ pc = "section1"
    /\ rendered' = rendered \cup {"fig_tendencia", "fig_tipo_violencia", "fig_horaria"}
    /\ IF hora_pico_raises(df)
       THEN Crash("KeyError")
       ELSE pc' = "upload" /\ UNCHANGED exception
    /\ UNCHANGED <<disk, cache, df, df_mensual, df_coords, df_predicciones,
                   df_mapa_pred, top_cuadrantes, called>>
    /\ UNCHANGED webVars

\* Lines 183-188 and 217-218: the uploader; without a file only a hint is shown.
UploadWidget ==
    /\ pc = "upload"
    /\ IF uploaded_file.status = "none"
       THEN pc' = "done" /\ rendered' = rendered \cup {"info_upload"}
       ELSE pc' = "read" /\ UNCHANGED rendered
    /\ UNCHANGED <<disk, cache, df, df_mensual, df_coords, df_predicciones,
                   df_mapa_pred, top_cuadrantes, exception, called>>
    /\ UNCHANGED webVars

\* The st.error text of line 215: a fixed sentence followed by the exception, {e}.
error_processing(e) == "error_processing: " \o e

\* Lines 214-215: every exception of the try block ends in the same st.error.
Handled(e) == pc' = "done" /\ rendered' = rendered \cup {error_processing(e)}

read_csv_never_raises(u) == "none"

\* What pd.read_csv(uploaded_file) raises: UnicodeDecodeError on bytes that are
\* not text in the expected encoding, ParserError on text that is not a table.
read_csv_raises(u) ==
    CASE u.status = "corrupt" -> "UnicodeDecodeError"
      [] u.status = "malformed" -> "ParserError"
      [] OTHER -> "none"

\* Line 190: pd.read_csv(uploaded_file)
ReadUpload ==
    /\ pc = "read"
    /\ IF read_csv_raises(uploaded_file) # "none"
       THEN Handled(read_csv_raises(uploaded_file)) /\ UNCHANGED df_predicciones
       ELSE /\ df_predicciones' = [columns |-> uploaded_file.columns,
                                   rows |-> uploaded_file.rows]
            /\ pc' = "schema"
            /\ UNCHANGED rendered
    /\ UNCHANGED <<disk, cache, df, df_mensual, df_coords,
                   df_mapa_pred, top_cuadrantes, exception, called>>
    /\ UNCHANGED webVars

\* Lines 192-196: the column check.
SchemaCheck ==
    /\ pc = "schema"
    /\ IF schema_ok(df_predicciones.columns)
       THEN pc' = "join" /\ UNCHANGED rendered
       ELSE pc' = "done" /\ rendered' = rendered \cup {"sidebar_error_schema"}
    /\ UNCHANGED <<disk, cache, df, df_mensual, df_coords, df_predicciones,
                   df_mapa_pred, top_cuadrantes, exception, called>>
    /\ UNCHANGED webVars

\* Lines 198-200: create_prediction_map(df_coords, df_predicciones), then the map.
\* The overlay is bound only when the function returns.
CreatePredictionMap ==
    /\ pc = "join"
    /\ called' = called \cup {"create_prediction_map"}
    /\ IF map_raises(df_predicciones.columns)
       THEN Handled("ValueError") /\ UNCHANGED df_mapa_pred
       ELSE /\ df_mapa_pred' = merge_inner(df_predicciones.rows, df_coords)
            /\ rendered' = rendered \cup {"mapa_predictivo"}
            /\ pc' = "insights"
    /\ UNCHANGED <<disk, cache, df, df_mensual, df_coords, df_predicciones,
                   top_cuadrantes, exception>>
    /\ UNCHANGED webVars

\* Lines 203-212: the top rows, the narrative that names three of them, the table.
Insights ==
    /\ pc = "insights"
    /\ \E s \in sort_values_desc(df_mapa_pred) : top_cuadrantes' = Head_n(s, TOP_N)
    /\ IF Len(df_mapa_pred) < NARRATIVE_N
       THEN Handled("IndexError")
       ELSE /\ pc' = "done"
            /\ rendered' = rendered \cup {"insight_prediccion", "tabla_predicciones"}
    /\ UNCHANGED <<disk, cache, df, df_mensual, df_coords, df_predicciones,
                   df_mapa_pred, exception, called>>
    /\ UNCHANGED webVars

NextApp ==
    \/ LoadData
    \/ Guard
    \/ KPIs
    \/ CreateFigures
    \/ Section1
    \/ UploadWidget
    \/ ReadUpload
    \/ SchemaCheck
    \/ CreatePredictionMap
    \/ Insights

(***************************************************************************)
(* web.py, the script run: loading (lines 39-45), the sidebar and the      *)
(* filter (lines 48-77), the forecast files (lines 80-119), the pages      *)
(* Dashboard Principal (lines 122-307), Analisis por Tipo (lines 310-450), *)
(* Mapa (lines 453-530) and Predicciones (lines 533-714), and the footer   *)
(* (lines 716-723)                                                         *)
(***************************************************************************)
WebCrash(e) ==
    /\ wpc' = "crashed"
    /\ wexception' = e

\* pd.to_datetime(df['FECHA']) without errors=: a malformed date raises.
to_datetime_raises(rows) ==
    \E r \in Range(rows) : r.FECHA # NaT /\ to_datetime_coerce(r.FECHA) = NaT

\* Lines 39-45: load_data() of web.py has no try block and drops no row.  It
\* takes no argument, so its one cache entry is found by every later call.
WebLoadData ==
    /\ wpc = "load"
    /\ IF wcache.load_data # <<>>
       THEN /\ wdf' = wcache.load_data[1]
            /\ wpc' = "sidebar"
            /\ UNCHANGED <<wexception, wcache>>
       ELSE IF file.status = "missing"
       THEN WebCrash("FileNotFoundError") /\ UNCHANGED <<wdf, wcache>>
       ELSE IF file.status = "unreadable"
       THEN WebCrash("PermissionError") /\ UNCHANGED <<wdf, wcache>>
       ELSE IF to_datetime_raises(file.rows)
       THEN WebCrash("ValueError") /\ UNCHANGED <<wdf, wcache>>
       ELSE /\ wdf' = file.rows
            /\ wcache' = [wcache EXCEPT !.load_data = <<file.rows>>]
            /\ wpc' = "sidebar"
            /\ UNCHANGED wexception
    /\ UNCHANGED <<disk, predVars, page, tipos_robo, anios, df_filtrado, wrendered>>
    /\ UNCHANGED appVars

Pages == {"Dashboard Principal", "Analisis por Tipo", "Mapa", "Predicciones"}

unique(rows, c) == {r[c] : r \in Range(rows)}

\* sorted(df['TIPO'].unique()) raises TypeError when NaN stands beside a label.
sorted_raises(labels) == NULL \in labels /\ labels # {NULL}

\* Lines 73-77: the rows of a selected type within the selected years.
filtrar(rows, tipos, rango) ==
    SelectSeq(rows, LAMBDA r :
        r.TIPO \in tipos /\ r.ANIO >= rango[1] /\ r.ANIO <= rango[2])

\* Lines 48-77: the view, the types and the year range chosen in the sidebar.
\* int(df['AÑO'].min()) raises ValueError on a frame without rows.
Sidebar ==
    /\ wpc = "sidebar"
    /\ IF sorted_raises(unique(wdf, "TIPO"))
       THEN WebCrash("TypeError") /\ UNCHANGED <<page, tipos_robo, anios, df_filtrado>>
       ELSE IF wdf = <<>>
       THEN WebCrash("ValueError") /\ UNCHANGED <<page, tipos_robo, anios, df_filtrado>>
       ELSE \E pg \in Pages, sel \in SUBSET unique(wdf, "TIPO"),
               lo \in unique(wdf, "ANIO"), hi \in unique(wdf, "ANIO") :
                /\ lo <= hi
                /\ page' = pg
                /\ tipos_robo' = sel
                /\ anios' = <<lo, hi>>
                /\ df_filtrado' = filtrar(wdf, sel, <<lo, hi>>)
                /\ wpc' = "predload"
                /\ UNCHANGED wexception
    /\ UNCHANGED <<disk, predVars, wcache, wdf, wrendered>>
    /\ UNCHANGED appVars

Categories == {"negocio", "vehiculo", "casa"}

\* What a forecast table that could not be read is kept as.
None == [is_none |-> TRUE, columns |-> {}, rows |-> <<>>]

\* try: pd.read_csv(...) except: None (lines 87-100)
read_forecast(f) ==
    IF f.status = "csv"
    THEN [is_none |-> FALSE, columns |-> f.columns, rows |-> f.rows]
    ELSE None

\* try: json.load(f) except: {} (lines 102-106); the record is kept as the
\* set of categories it has January metrics for.
read_metricas(m) == IF m.status = "json" THEN m.keys ELSE {}

\* Lines 80-108
load_prediction_data(e) ==
    [pred_data |-> [c \in Categories |-> read_forecast(e[c])],
     metricas |-> read_metricas(e.metricas)]

\* The mean of the cells present, NaN when there is none.
mean_skipna(rows, c) ==
    LET present == SelectSeq(rows, LAMBDA r : r[c] # NaN)
    IN  IF present = <<>> THEN [num |-> NaN, den |-> 1] ELSE mean(present, c)

\* Lines 111-116: groupby('CUADRANTE')[['LATITUD', 'LONGITUD']].mean()
get_cuadrante_coords(df_full) ==
    LET zs == zones_of(df_full)
    IN  [i \in DOMAIN zs |->
            [CUADRANTE |-> zs[i],
             LATITUD |-> mean_skipna(zone_rows(df_full, zs[i]), "LATITUD"),
             LONGITUD |-> mean_skipna(zone_rows(df_full, zs[i]), "LONGITUD")]]

\* Lines 118-119: both calls are cached without arguments; get_cuadrante_coords
\* reads the records through the cached load_data().
LoadPredictions ==
    /\ wpc = "predload"
    /\ LET p == IF wcache.load_prediction_data # <<>>
                THEN wcache.load_prediction_data[1]
                ELSE load_prediction_data(exportados)
           c == IF wcache.get_cuadrante_coords # <<>>
                THEN wcache.get_cuadrante_coords[1]
                ELSE get_cuadrante_coords(wcache.load_data[1])
       IN  /\ pred_data' = p.pred_data
           /\ metricas_modelos' = p.metricas
           /\ cuadrante_coords' = c
           /\ wcache' = [wcache EXCEPT !.load_prediction_data = <<p>>,
                                       !.get_cuadrante_coords = <<c>>]
    /\ wpc' = "page"
    /\ UNCHANGED <<disk, wdf, page, tipos_robo, anios, df_filtrado, wrendered, wexception>>
    /\ UNCHANGED appVars

\* Series.value_counts() and groupby(c).size(): the (label, count) pairs of the
\* labels present; no pair on a frame without rows.
NumericColumns == {"LATITUD", "LONGITUD", "HORA", "ANIO", "MES"}

isna(c, v) == IF c \in NumericColumns THEN v = NaN ELSE v = NULL

value_counts(rows, c) ==
    {<<v, Count(rows, LAMBDA r : r[c] = v)>> :
        v \in {x \in unique(rows, c) : ~isna(c, x)}}

\* idxmax() of an empty Series raises ValueError, .index[0] of one IndexError.
idxmax_raises(counts) == counts = {}

\* Lines 122-282: header, metrics and the charts of the first three rows and of
\* the season pie; each is built from a value_counts or a groupby size.
RenderDashboard ==
    /\ wpc = "page"
    /\ page = "Dashboard Principal"
    /\ wrendered' = wrendered \cup
          {"metrics", "fig_tipo", "fig_violencia", "fig_anio", "fig_mes",
           "fig_distritos", "fig_cuadrantes", "fig_estacion"}
    /\ wpc' = "keystats"
    /\ UNCHANGED <<disk, predVars, wcache, wdf, page, tipos_robo, anios, df_filtrado,
                   wexception>>
    /\ UNCHANGED appVars

\* Lines 284-307: year, month and district of highest incidence, violence rates.
KeyStats ==
    /\ wpc = "keystats"
    /\ IF idxmax_raises(value_counts(df_filtrado, "ANIO"))
       THEN WebCrash("ValueError") /\ UNCHANGED wrendered
       ELSE IF idxmax_raises(value_counts(df_filtrado, "MES"))
       THEN WebCrash("ValueError") /\ UNCHANGED wrendered
       ELSE IF idxmax_raises(value_counts(df_filtrado, "DISTRITO"))
       THEN WebCrash("IndexError") /\ UNCHANGED wrendered
       ELSE /\ wrendered' = wrendered \cup {"key_stats", "violence_rates"}
            /\ wpc' = "footer"
            /\ UNCHANGED wexception
    /\ UNCHANGED <<disk, predVars, wcache, wdf, page, tipos_robo, anios, df_filtrado>>
    /\ UNCHANGED appVars

\* Lines 453-530: the map, or a warning when no filtered row has coordinates.
RenderMapa ==
    /\ wpc = "page"
    /\ page = "Mapa"
    /\ wrendered' = wrendered \cup
          (IF \E r \in Range(df_filtrado) : r.LATITUD # NaN /\ r.LONGITUD # NaN
           THEN {"fig_scatter"} ELSE {"warning_no_geo"})
    /\ wpc' = "footer"
    /\ UNCHANGED <<disk, predVars, wcache, wdf, page, tipos_robo, anios, df_filtrado,
                   wexception>>
    /\ UNCHANGED appVars

\* The rows of one type among the filtered ones (line 320).
df_tipo(tipo) == SelectSeq(df_filtrado, LAMBDA r : r.TIPO = tipo)

\* Lines 310-450: one tab per selected type; st.tabs([]) raises
\* StreamlitAPIException.  A tab with rows shows its metrics and charts, and
\* its top district (line 342) and peak year (line 349) raise as in KeyStats;
\* a tab without rows shows a hint.
RenderAnalisis ==
    /\ wpc = "page"
    /\ page = "Analisis por Tipo"
    /\ IF tipos_robo = {}
       THEN WebCrash("StreamlitAPIException") /\ UNCHANGED wrendered
       ELSE IF \E t \in tipos_robo :
                  df_tipo(t) # <<>> /\ idxmax_raises(value_counts(df_tipo(t), "DISTRITO"))
       THEN WebCrash("IndexError") /\ UNCHANGED wrendered
       ELSE IF \E t \in tipos_robo :
                  df_tipo(t) # <<>> /\ idxmax_raises(value_counts(df_tipo(t), "ANIO"))
       THEN WebCrash("ValueError") /\ UNCHANGED wrendered
       ELSE /\ wrendered' = wrendered \cup
                  {IF df_tipo(t) # <<>> THEN "analisis: " \o t ELSE "info_sin_datos: " \o t :
                      t \in tipos_robo}
            /\ wpc' = "footer"
            /\ UNCHANGED wexception
    /\ UNCHANGED <<disk, predVars, wcache, wdf, page, tipos_robo, anios, df_filtrado>>
    /\ UNCHANGED appVars

has_prediction_always(t) == TRUE

\* pred_data[x] is not None and len(pred_data[x]) > 0 (lines 549, 595, 641)
has_prediction(t) == ~t.is_none /\ Len(t.rows) > 0

\* Lines 670-671: the forecast rows of casa that get a coordinate from
\* cuadrante_coords (left merge, then dropna on LATITUD and LONGITUD).
df_pred_mapa(t, coords) ==
    SelectSeq(t.rows, LAMBDA p :
        \E c \in Range(coords) :
            /\ c.CUADRANTE = p.CUADRANTE
            /\ c.LATITUD.num # NaN /\ c.LONGITUD.num # NaN)

\* What a forecast tab shows: metrics (or N/A), table and bar chart of a
\* forecast with rows, the hint otherwise.
tab(c, t, metricas) ==
    IF has_prediction(t)
    THEN {IF c \in metricas THEN "metricas: " \o c ELSE "metricas N/A: " \o c,
          "tabla: " \o c, "fig_pred: " \o c}
    ELSE {"info_sin_prediccion: " \o c}

\* Lines 533-714: the three forecast tabs; casa also draws its forecast on a map.
RenderPredicciones ==
    /\ wpc = "page"
    /\ page = "Predicciones"
    /\ wrendered' = wrendered
          \cup UNION {tab(c, pred_data[c], metricas_modelos) : c \in Categories}
          \cup (IF ~has_prediction(pred_data["casa"]) THEN {}
                ELSE IF df_pred_mapa(pred_data["casa"], cuadrante_coords) # <<>>
                THEN {"fig_mapa_pred"} ELSE {"warning_no_geo_pred"})
    /\ wpc' = "footer"
    /\ UNCHANGED <<disk, predVars, wcache, wdf, page, tipos_robo, anios, df_filtrado,
                   wexception>>
    /\ UNCHANGED appVars

\* Lines 716-723
Footer ==
    /\ wpc = "footer"
    /\ wrendered' = wrendered \cup {"footer"}
    /\ wpc' = "done"
    /\ UNCHANGED <<disk, predVars, wcache, wdf, page, tipos_robo, anios, df_filtrado,
                   wexception>>
    /\ UNCHANGED appVars

NextWeb ==
    \/ WebLoadData
    \/ Sidebar
    \/ LoadPredictions
    \/ RenderDashboard
    \/ KeyStats
    \/ RenderAnalisis
    \/ RenderMapa
    \/ RenderPredicciones
    \/ Footer

Next == NextApp \/ NextWeb

(***************************************************************************)
(* Source files and uploads the runs start from                            *)
(***************************************************************************)
BaseRow ==
    [FECHA |-> <<2020, 1, 15>>, LATITUD |-> 28, LONGITUD |-> 106,
     TIPO |-> "ROBO A NEGOCIO", VIOLENCIA |-> SI, HORA |-> 12,
     CUADRANTE |-> "A", DISTRITO |-> "COLON",
     ANIO |-> 2020, MES |-> 1, ESTACION |-> "INVIERNO"]

\* Rows that differ in what the row filter reads: a good date, a day that does
\* not exist, no date; a coordinate or none.
RowsRetain ==
    {[BaseRow EXCEPT !.FECHA = f, !.LATITUD = la, !.LONGITUD = lo] :
        f \in {<<2020, 1, 15>>, <<2020, 2, 30>>, NaT}, la \in {28, NaN}, lo \in {106, NaN}}

\* Rows that differ in month, type and hour.
RowsMonthly ==
    {[BaseRow EXCEPT !.FECHA = f, !.TIPO = tp, !.HORA = h] :
        f \in {<<2020, 1, 15>>, <<2020, 2, 3>>},
        tp \in {"ROBO A NEGOCIO", "ROBO DE VEHICULO", NULL},
        h \in {12, SENTINEL}}

\* Rows that differ in date and hour: the first and the last hour of a day, an
\* hour past the end of the day, the sentinel, no hour.
RowsHora ==
    {[BaseRow EXCEPT !.FECHA = f, !.HORA = h] :
        f \in {<<2020, 1, 15>>, NaT}, h \in {0, 23, 24, SENTINEL, NaN}}

\* Rows that differ in zone and district.
RowsZone ==
    {[BaseRow EXCEPT !.CUADRANTE = z, !.DISTRITO = d] :
        z \in {"A", "B", NULL}, d \in {"ANGEL", "COLON", NULL}}

\* Raw VIOLENCIA texts before padding: both labels in several casings, a label
\* wrapped in tabs, labels with a blank inside or a letter too many, the empty text.
Cores ==
    {<<"S", "I">>, <<"s", "i">>, <<"s", "I">>, <<"N", "O">>, <<"n", "o">>,
     <<"\t", "N", "o", "\t">>, <<"S", " ", "I">>, <<"S", "I", "N">>, <<>>}

Blanks(n) == [i \in 1..n |-> " "]

\* Rows that differ in the raw VIOLENCIA text: a core between leading and
\* trailing blanks, or a missing cell.
RowsViolencia ==
    {[BaseRow EXCEPT !.VIOLENCIA = v] :
        v \in {Blanks(a) \o c \o Blanks(b) : a \in 0..MaxPad, b \in 0..MaxPad, c \in Cores}
              \cup {NA_STR}}

\* Rows that differ in type and year.
RowsWeb ==
    {[BaseRow EXCEPT !.TIPO = tp, !.ANIO = a] :
        tp \in {"ROBO A NEGOCIO", "ROBO DE VEHICULO"}, a \in {2020, 2021}}

Files(Rows, n) ==
    {[status |-> "missing", rows |-> <<>>], [status |-> "unreadable", rows |-> <<>>]}
    \cup {[status |-> "ok", rows |-> s] : s \in SeqsUpTo(Rows, n)}

AllColumns == {"CUADRANTE", "PREDICCION_ROBOS_MES_N", "PREDICCION_ROBOS"}

\* A prediction row of a table with the given columns.
PredRow(columns, z, n) ==
    [CUADRANTE |-> IF "CUADRANTE" \in columns THEN z ELSE NULL,
     PREDICCION_ROBOS_MES_N |-> IF "PREDICCION_ROBOS_MES_N" \in columns THEN n ELSE NaN,
     PREDICCION_ROBOS |-> IF "PREDICCION_ROBOS" \in columns THEN n ELSE NaN]

Tables(ColumnSets, Zones, Counts, n) ==
    UNION {{[status |-> "csv", columns |-> cs, rows |-> s] :
               s \in SeqsUpTo({PredRow(cs, z, k) : z \in Zones, k \in Counts}, n)} :
           cs \in ColumnSets}

NoUpload == [status |-> "none", columns |-> {}, rows |-> <<>>]
CorruptUpload == [status |-> "corrupt", columns |-> {}, rows |-> <<>>]
MalformedUpload == [status |-> "malformed", columns |-> {}, rows |-> <<>>]

\* No upload, or one well-formed table for zones A, A and B.
UploadsSmall ==
    {NoUpload,
     [status |-> "csv", columns |-> AllColumns,
      rows |-> <<PredRow(AllColumns, "A", 7), PredRow(AllColumns, "A", 5),
                 PredRow(AllColumns, "B", 5)>>]}

UploadsAll ==
    {NoUpload, CorruptUpload, MalformedUpload}
    \cup Tables({AllColumns, required_cols, {"CUADRANTE", "PREDICCION_ROBOS"},
                 {"PREDICCION_ROBOS_MES_N", "PREDICCION_ROBOS"}},
                {"A", "B", "C"}, {5, 7}, MaxPredRows)

\* Zone references {A, B}, in either row order, or {A} alone.
FilesZonesAB ==
    {[status |-> "ok", rows |-> s] :
        s \in {<<BaseRow, [BaseRow EXCEPT !.CUADRANTE = "B", !.DISTRITO = "ANGEL"]>>,
               <<[BaseRow EXCEPT !.CUADRANTE = "B", !.DISTRITO = "ANGEL"], BaseRow>>,
               <<BaseRow>>}}

\* A forecast table on disk: not there, not readable as a table, or a table of
\* the exported form, which may have no row, a row of zone A or a row of a zone
\* the source file does not have.
ForecastColumns == {"CUADRANTE", "PREDICCION_ROBOS_MES_N"}

AbsentFile == [status |-> "absent", columns |-> {}, rows |-> <<>>]

Forecasts ==
    {AbsentFile, [status |-> "unparsable", columns |-> {}, rows |-> <<>>]}
    \cup {[status |-> "csv", columns |-> ForecastColumns, rows |-> s] :
             s \in {<<>>, <<PredRow(ForecastColumns, "A", 5)>>,
                    <<PredRow(ForecastColumns, "C", 7)>>}}

\* metricas_modelos.json: not there, or with January metrics for some categories.
Sidecars ==
    {[status |-> "absent", keys |-> {}], [status |-> "json", keys |-> {"negocio"}],
     [status |-> "json", keys |-> Categories]}

NoExports ==
    [negocio |-> AbsentFile, vehiculo |-> AbsentFile, casa |-> AbsentFile,
     metricas |-> [status |-> "absent", keys |-> {}]]

ExportsAll ==
    [negocio : Forecasts, vehiculo : Forecasts, casa : Forecasts, metricas : Sidecars]

\* One source file, then the same file with a record of zone B added, or no file.
FilesEdited ==
    {[status |-> "missing", rows |-> <<>>],
     [status |-> "ok", rows |-> <<BaseRow>>],
     [status |-> "ok",
      rows |-> <<BaseRow, [BaseRow EXCEPT !.CUADRANTE = "B", !.DISTRITO = "ANGEL"]>>]}

EmptyCache ==
    [load_data |-> <<>>, load_prediction_data |-> <<>>, get_cuadrante_coords |-> <<>>]

InitRun(Sources, Uploads, Exports) ==
    /\ file \in Sources
    /\ uploaded_file \in Uploads
    /\ exportados \in Exports
    /\ pred_data = [c \in Categories |-> None]
    /\ metricas_modelos = {}
    /\ cuadrante_coords = <<>>
    /\ cache = <<>>
    /\ wcache = EmptyCache
    /\ pc = "load"
    /\ df = <<>>
    /\ df_mensual = <<>>
    /\ df_coords = <<>>
    /\ df_predicciones = [columns |-> {}, rows |-> <<>>]
    /\ df_mapa_pred = <<>>
    /\ top_cuadrantes = <<>>
    /\ rendered = {}
    /\ exception = "none"
    /\ called = {}
    /\ wpc = "load"
    /\ wdf = <<>>
    /\ page = "Dashboard Principal"
    /\ tipos_robo = {}
    /\ anios = <<0, 0>>
    /\ df_filtrado = <<>>
    /\ wrendered = {}
    /\ wexception = "none"

\* Zone references {A, B, C}.
FilesZonesABC ==
    {[status |-> "ok",
      rows |-> <<BaseRow, [BaseRow EXCEPT !.CUADRANTE = "B", !.DISTRITO = "ANGEL"],
                 [BaseRow EXCEPT !.CUADRANTE = "C", !.DISTRITO = "DIANA"]>>]}

InitWith(Sources, Uploads) == InitRun(Sources, Uploads, {NoExports})

\* A user interaction runs app.py again from the top; only the cache survives.
Rerun ==
    /\ pc \in {"done", "crashed"}
    /\ pc' = "load"
    /\ df' = <<>>
    /\ df_mensual' = <<>>
    /\ df_coords' = <<>>
    /\ df_predicciones' = [columns |-> {}, rows |-> <<>>]
    /\ df_mapa_pred' = <<>>
    /\ top_cuadrantes' = <<>>
    /\ rendered' = {}
    /\ exception' = "none"
    /\ called' = {}
    /\ UNCHANGED <<disk, cache>>
    /\ UNCHANGED webVars

\* A user interaction runs web.py again from the top; only the cache survives.
WebRerun ==
    /\ wpc \in {"done", "crashed"}
    /\ wpc' = "load"
    /\ wdf' = <<>>
    /\ df_filtrado' = <<>>
    /\ wrendered' = {}
    /\ wexception' = "none"
    /\ pred_data' = [c \in Categories |-> None]
    /\ metricas_modelos' = {}
    /\ cuadrante_coords' = <<>>
    /\ UNCHANGED <<disk, page, tipos_robo, anios, wcache>>
    /\ UNCHANGED appVars

\* robos_tot_final.csv is replaced on disk, at any moment.
ChangeSource ==
    /\ file' \in FilesEdited \ {file}
    /\ UNCHANGED <<uploaded_file, exportados>>
    /\ UNCHANGED <<appVars, webVars>>

\* Both dashboards, run again and again while the source file changes.
NextCached == NextApp \/ NextWeb \/ Rerun \/ WebRerun \/ ChangeSource

Init == InitWith(Files(RowsWeb, MaxRows), UploadsSmall)

\* Both dashboards, each run once against the same source file.
Spec == Init /\ [][Next]_vars

\* app.py on files that differ in dates and coordinates.
SpecRetain == InitWith(Files(RowsRetain, MaxRows), UploadsSmall) /\ [][NextApp]_vars

\* app.py on files that differ in month, type and hour.
SpecMonthly == InitWith(Files(RowsMonthly, MaxRows), UploadsSmall) /\ [][NextApp]_vars

\* app.py on files that differ in date and hour.
SpecHora == InitWith(Files(RowsHora, MaxRows), UploadsSmall) /\ [][NextApp]_vars

\* app.py on files that differ in zone and district.
SpecZone == InitWith(Files(RowsZone, MaxRows), UploadsSmall) /\ [][NextApp]_vars

\* app.py on files that differ in the VIOLENCIA text.
SpecViolencia ==
    InitWith(Files(RowsViolencia, MaxViolRows), UploadsSmall) /\ [][NextApp]_vars

\* app.py on every upload, with zone references {A, B}, {A} or {A, B, C}.
SpecUpload == InitWith(FilesZonesAB \cup FilesZonesABC, UploadsAll) /\ [][NextApp]_vars

\* web.py on files that differ in type and year.
SpecWeb == InitWith(Files(RowsWeb, MaxRows), {NoUpload}) /\ [][NextWeb]_vars

\* web.py on every combination of forecast files and sidecar.
SpecExports == InitRun(FilesEdited, {NoUpload}, ExportsAll) /\ [][NextWeb]_vars

\* Both dashboards over runs and changes of the source file.
SpecCached == InitRun(FilesEdited, UploadsSmall, {NoExports}) /\ [][NextCached]_vars

(***************************************************************************)
(* Properties                                                              *)
(***************************************************************************)
\* load_data of app.py was called and returned (it did not raise).
LoadReturned == "load_data" \in called /\ (pc = "crashed" => "title" \in rendered)

\* The cells the row filter of load_data reads.
Geotemporal(r) == <<r.FECHA, r.LATITUD, r.LONGITUD>>

Usable(r) == to_datetime_coerce(r.FECHA) # NaT /\ r.LATITUD # NaN /\ r.LONGITUD # NaN

\* C1: load_data retains exactly the input rows whose FECHA parses as a
\* timestamp and whose LATITUD and LONGITUD are both present, in their order:
\* N unusable rows among M usable ones leave exactly M records.
C1_RetainsExactlyUsableRows ==
    (LoadReturned /\ file.status = "ok") =>
        /\ Len(df) = Count(file.rows, Usable)
        /\ [i \in DOMAIN df |-> Geotemporal(df[i])]
             = [i \in DOMAIN SelectSeq(file.rows, Usable) |->
                    Geotemporal(SelectSeq(file.rows, Usable)[i])]

\* C1 witness: one usable row kept out of a file that also holds a row with an
\* impossible date and a row without a coordinate.
C1_Witness ==
    /\ LoadReturned
    /\ Len(df) = 1
    /\ \E r \in Range(file.rows) : r.FECHA # NaT /\ to_datetime_coerce(r.FECHA) = NaT
    /\ \E r \in Range(file.rows) : r.FECHA = <<2020, 1, 15>> /\ r.LONGITUD = NaN

\* C2: the 'Total Robos' counts of df_mensual add up to the number of retained
\* records, also when a retained record has no TIPO.
C2_MonthlyConservation ==
    LoadReturned => SumSeq(df_mensual, LAMBDA g : g.Total_Robos) = Len(df)

\* The upload block ran to its end.
UploadHandled == pc = "done" /\ "fig_horaria" \in rendered /\ uploaded_file.status # "none"

LacksRequiredColumn(u) ==
    u.status = "csv" /\
    ("CUADRANTE" \notin u.columns \/ "PREDICCION_ROBOS_MES_N" \notin u.columns)

\* C3: create_prediction_map is invoked only for an upload that has both
\* required columns, and an upload that lacks one ends with the schema error
\* shown and no join.
C3_JoinOnlyAfterSchemaCheck ==
    /\ "create_prediction_map" \in called => ~LacksRequiredColumn(uploaded_file)
    /\ (UploadHandled /\ LacksRequiredColumn(uploaded_file)) =>
           /\ "sidebar_error_schema" \in rendered
           /\ "create_prediction_map" \notin called
           /\ df_mapa_pred = <<>>

\* C3 witness: a table with rows but without PREDICCION_ROBOS_MES_N was handled.
C3_Witness ==
    /\ UploadHandled
    /\ uploaded_file.columns = {"CUADRANTE", "PREDICCION_ROBOS"}
    /\ uploaded_file.rows # <<>>
    /\ "sidebar_error_schema" \in rendered

PredictionPart(r) ==
    [CUADRANTE |-> r.CUADRANTE,
     PREDICCION_ROBOS_MES_N |-> r.PREDICCION_ROBOS_MES_N,
     PREDICCION_ROBOS |-> r.PREDICCION_ROBOS]

ZonesOf(coords) == {c.CUADRANTE : c \in Range(coords)}

\* create_prediction_map returned its overlay.
OverlayReturned == "mapa_predictivo" \in rendered

\* C4: the overlay holds exactly the prediction rows whose CUADRANTE occurs in
\* df_coords, in their order, and no row of another zone.
C4_OverlayIsMatchedPredictions ==
    OverlayReturned =>
        LET matched == SelectSeq(uploaded_file.rows,
                           LAMBDA p : p.CUADRANTE \in ZonesOf(df_coords))
        IN  /\ [i \in DOMAIN df_mapa_pred |-> PredictionPart(df_mapa_pred[i])] = matched
            /\ \A r \in Range(df_mapa_pred) : r.CUADRANTE \in ZonesOf(df_coords)

\* C4 witness: zone references {A, B}, predictions for A and C, one overlay row, A's.
C4_Witness ==
    /\ OverlayReturned
    /\ ZonesOf(df_coords) = {"A", "B"}
    /\ [i \in DOMAIN uploaded_file.rows |-> uploaded_file.rows[i].CUADRANTE] = <<"A", "C">>
    /\ Len(df_mapa_pred) = 1
    /\ df_mapa_pred[1].CUADRANTE = "A"

\* The districts of the retained records of zone z, in row order.
DistrictsOf(z) == column(SelectSeq(df, LAMBDA r : r.CUADRANTE = z), "DISTRITO")

Tied(labels) ==
    {d \in Range(labels) \ {NULL} :
        \A e \in Range(labels) \ {NULL} :
            Count(labels, LAMBDA x : x = e) <= Count(labels, LAMBDA x : x = d)}

FirstIndex(labels, d) == CHOOSE i \in DOMAIN labels :
                             labels[i] = d /\ \A j \in 1..(i - 1) : labels[j] # d

C6_UnavailableSourceYieldsEmpty ==
    ("load_data" \in called /\ file.status \in {"missing", "unreadable"}) =>
        /\ exception = "none"
        /\ df = <<>> /\ df_mensual = <<>> /\ df_coords = <<>>
        /\ rendered \subseteq {"error_file_not_found"}
        /\ called = {"load_data"}

\* v reads t once surrounding whitespace is dropped and case is ignored.
ReadsAs(v, t) ==
    /\ v # NA_STR
    /\ \E i \in 1..(Len(v) + 1) : \E j \in 0..Len(v) :
           /\ j - i + 1 = Len(t)
           /\ \A k \in 1..(i - 1) : v[k] \in {" ", "\t"}
           /\ \A k \in (j + 1)..Len(v) : v[k] \in {" ", "\t"}
           /\ \A k \in 1..Len(t) :
                  v[i + k - 1] = t[k]
                  \/ <<v[i + k - 1], t[k]>> \in
                         {<<"s", "S">>, <<"i", "I">>, <<"n", "N">>, <<"o", "O">>}

\* C7: every retained record's VIOLENCIA is SI, NO or DESCONOCIDA; it is SI
\* (NO) exactly when the raw text reads SI (NO) after trimming and upper-casing,
\* and DESCONOCIDA for anything else, empty and missing cells included; the
\* category-by-violence grouping sees only the three values.
C7_ViolenciaNormalised ==
    (LoadReturned /\ file.status = "ok" /\ Len(df) = Len(file.rows)) =>
        /\ \A i \in DOMAIN df :
               /\ df[i].VIOLENCIA \in {SI, NO, DESCONOCIDA}
               /\ df[i].VIOLENCIA = SI <=> ReadsAs(file.rows[i].VIOLENCIA, SI)
               /\ df[i].VIOLENCIA = NO <=> ReadsAs(file.rows[i].VIOLENCIA, NO)
        /\ "create_figures" \in called =>
               \A g \in df_tipo_violencia(df) : g.VIOLENCIA \in {SI, NO, DESCONOCIDA}

\* C7 witness: the raw text " sI" became SI and was grouped as SI.
C7_Witness ==
    /\ "create_figures" \in called
    /\ file.rows = <<[BaseRow EXCEPT !.VIOLENCIA = <<" ", "s", "I">>]>>
    /\ df[1].VIOLENCIA = SI
    /\ \E g \in df_tipo_violencia(df) : g.VIOLENCIA = SI /\ g.Conteo = 1

\* C8: a record whose HORA is 99 has no HORA_CLEAN and no place in the hourly
\* distribution, and is still counted in the monthly, the category-by-violence
\* and the per-zone aggregate.
C8_SentinelHourOnlyLeavesHourly ==
    "create_figures" \in called =>
        \A i \in DOMAIN df :
            df[i].HORA = SENTINEL =>
                /\ df[i].HORA_CLEAN = NaN
                /\ df[i] \notin Range(df_horaria(df))
                /\ \E g \in Range(df_mensual) :
                       /\ g.TIPO = df[i].TIPO
                       /\ <<g.FECHA_MES[1], g.FECHA_MES[2]>> = df[i].FECHA_MES
                       /\ g.Total_Robos >= 1
                /\ \E g \in df_tipo_violencia(df) :
                       g.TIPO = df[i].TIPO /\ g.VIOLENCIA = df[i].VIOLENCIA
                /\ \E c \in Range(df_coords) : c.CUADRANTE = df[i].CUADRANTE

\* The statistics block of the Dashboard Principal page was run.
KeyStatsRun == "fig_estacion" \in wrendered /\ wpc # "keystats"

\* C9: when the chosen types and years select no row, every aggregate of the
\* dashboard page is empty and none raises.
C9_EmptyFilterDegrades ==
    (KeyStatsRun /\ df_filtrado = <<>>) =>
        /\ \A c \in {"TIPO", "VIOLENCIA", "ANIO", "MES", "DISTRITO", "CUADRANTE",
                     "ESTACION"} : value_counts(df_filtrado, c) = {}
        /\ wexception = "none"

\* The top rows of the overlay were taken.
TopTaken == pc = "done" /\ OverlayReturned

\* C10: the top rows are in descending order of the predicted count, equal
\* counts in ascending order of CUADRANTE, so the sequence does not depend on
\* the row order of the overlay.
C10_TopKDeterministic ==
    TopTaken =>
        \A i \in DOMAIN top_cuadrantes : \A j \in DOMAIN top_cuadrantes :
            i < j =>
                \/ top_cuadrantes[i].PREDICCION_ROBOS_MES_N
                       > top_cuadrantes[j].PREDICCION_ROBOS_MES_N
                \/ /\ top_cuadrantes[i].PREDICCION_ROBOS_MES_N
                          = top_cuadrantes[j].PREDICCION_ROBOS_MES_N
                   /\ ~TextLess(top_cuadrantes[j].CUADRANTE, top_cuadrantes[i].CUADRANTE)

\* The column check of the upload block was passed or failed.
SchemaChecked == uploaded_file.status = "csv" /\ pc \in {"join", "insights", "done"}

\* C11: the column check accepts both column forms: a table with CUADRANTE and
\* PREDICCION_ROBOS passes, and one with CUADRANTE and PREDICCION_ROBOS_MES_N
\* passes.
C11_BothColumnFormsPass ==
    (SchemaChecked /\ "fig_horaria" \in rendered /\
     ({"CUADRANTE", "PREDICCION_ROBOS"} \subseteq uploaded_file.columns \/
      {"CUADRANTE", "PREDICCION_ROBOS_MES_N"} \subseteq uploaded_file.columns)) =>
        "sidebar_error_schema" \notin rendered

\* What app.py shows before it reaches the upload block.
Dashboard == {"title", "kpis", "fig_tendencia", "fig_tipo_violencia", "fig_horaria"}

\* C12: when reading the uploaded file fails, the failure is shown with its
\* cause, neither the column check nor create_prediction_map runs for that
\* upload, and what the dashboard had rendered before stays as it was.
C12_ReadFailureReportedOnly ==
    uploaded_file.status \in {"corrupt", "malformed"} =>
        /\ pc \notin {"schema", "join", "insights", "crashed"}
        /\ "sidebar_error_schema" \notin rendered
        /\ "create_prediction_map" \notin called
        /\ df_predicciones.rows = <<>> /\ df_mapa_pred = <<>>
        /\ UploadHandled =>
               /\ rendered = Dashboard \cup
                      {IF uploaded_file.status = "corrupt"
                       THEN "error_processing: UnicodeDecodeError"
                       ELSE "error_processing: ParserError"}
               /\ exception = "none"
               /\ df # <<>> /\ df_coords # <<>>

\* C12 witness: an upload that is not text was handled and its decoding error shown.
C12_Witness ==
    /\ UploadHandled
    /\ uploaded_file = CorruptUpload
    /\ "error_processing: UnicodeDecodeError" \in rendered

\* The prediction rows of the upload whose CUADRANTE has no row in df_coords.
Unmatched == SelectSeq(uploaded_file.rows, LAMBDA p : p.CUADRANTE \notin ZonesOf(df_coords))

\* A diagnostic element that reports n predictions without a matching zone.
unmatched_diagnostic(n) == "unmatched_predictions: " \o ToString(n)

\* C13: after a prediction join, the number of prediction rows whose zone has
\* no match in df_coords is reported in a diagnostic: zone references {A, B}
\* and predictions for A and C give a diagnostic that reports 1.
C13_UnmatchedCountReported ==
    (OverlayReturned /\ pc = "done" /\ Unmatched # <<>>) =>
        unmatched_diagnostic(Len(Unmatched)) \in rendered

\* C14: every retained record has a timestamp and both coordinates, and its
\* HORA_CLEAN, when present, lies in 0..23, whatever the HORA of the input,
\* out-of-range values other than 99 included.
C14_RetainedRecordsValid ==
    LoadReturned =>
        \A r \in Range(df) :
            /\ r.FECHA # NaT /\ r.LATITUD # NaN /\ r.LONGITUD # NaN
            /\ r.HORA_CLEAN # NaN => r.HORA_CLEAN \in 0..23

\* C15: df_coords has exactly one row for each distinct CUADRANTE among the
\* retained records, and load_data builds it for every set of retained
\* records, those of a zone without any DISTRITO and those without a
\* CUADRANTE included.
C15_OneRowPerZone ==
    ("load_data" \in called /\ file.status = "ok") =>
        LET kept == SelectSeq(file.rows, Usable)
            zones == {r.CUADRANTE : r \in Range(kept)} \ {NULL}
        IN  /\ LoadReturned
            /\ Len(df_coords) = Cardinality(zones)
            /\ \A z \in zones : \E i \in DOMAIN df_coords : df_coords[i].CUADRANTE = z

\* C16: over any sequence of runs and changes of the source file, a load
\* returns what load_data computes from the file as it is at that load; a
\* stored result is returned only while path and content are what they were
\* when it was computed.
C16_LoadFollowsSource ==
    [][/\ (pc = "load" /\ pc' = "guard") =>
              /\ df' = load_data(file).df
              /\ df_mensual' = load_data(file).df_mensual
              /\ df_coords' = load_data(file).df_coords
       /\ (wpc = "load" /\ wpc' = "sidebar") => wdf' = file.rows]_vars

\* load_prediction_data and get_cuadrante_coords have returned in this run.
PredictionsLoaded == wpc \in {"page", "keystats", "footer", "done"}

\* The forecast table of category c is not on disk.
Absent(c) == exportados[c].status = "absent"

\* C17: whichever of the three forecast tables and the metrics sidecar are
\* absent, load_prediction_data returns without raising (an absent table as
\* None, an absent sidecar as no metrics), no page fails because of it (a run
\* stops only where it stops with every file in place: no source file, no row
\* left by the filter on the main page, no type selected on the type page),
\* and on the Predicciones page each tab of an absent table shows the 'no
\* prediction data' hint and nothing else.
C17_AbsentForecastsDegrade ==
    /\ PredictionsLoaded =>
           /\ \A c \in Categories : Absent(c) => pred_data[c] = None
           /\ exportados.metricas.status = "absent" => metricas_modelos = {}
    /\ wpc = "crashed" =>
           \/ file.status = "missing"
           \/ page = "Dashboard Principal" /\ df_filtrado = <<>>
           \/ page = "Analisis por Tipo" /\ tipos_robo = {}
    /\ (page = "Predicciones" /\ wpc \in {"footer", "done"}) =>
           \A c \in Categories :
               Absent(c) =>
                   /\ "info_sin_prediccion: " \o c \in wrendered
                   /\ "tabla: " \o c \notin wrendered
                   /\ "fig_pred: " \o c \notin wrendered

\* C17 witness: the Predicciones page was rendered to its end with the negocio
\* table and the sidecar absent and the casa table in place.
C17_Witness ==
    /\ page = "Predicciones" /\ wpc = "done"
    /\ Absent("negocio") /\ exportados.metricas.status = "absent"
    /\ exportados.casa.rows # <<>>
    /\ "info_sin_prediccion: negocio" \in wrendered
    /\ "tabla: casa" \in wrendered
    /\ "metricas N/A: casa" \in wrendered

\* A mean that stands for no value at all.
IsNullMean(m) == m.num = NaN \/ m.den = 0

\* C18: every row of an overlay returned by create_prediction_map has a
\* centroid (LATITUD_AVG and LONGITUD_AVG, each the mean of at least one
\* present coordinate) and a dominant district, whatever df_coords load_data
\* built.
C18_OverlayRowsComplete ==
    OverlayReturned =>
        \A r \in Range(df_mapa_pred) :
            /\ ~IsNullMean(r.LATITUD_AVG) /\ ~IsNullMean(r.LONGITUD_AVG)
            /\ r.LATITUD_AVG.den = Len(zone_rows(df, r.CUADRANTE))
            /\ \A d \in Range(zone_rows(df, r.CUADRANTE)) :
                   d.LATITUD # NaN /\ d.LONGITUD # NaN
            /\ r.DISTRITO # NULL

\* C18 witness: an overlay of the two predictions for zone A, built while the
\* prediction for B found no zone and one record of A had no district.
C18_Witness ==
    /\ OverlayReturned
    /\ ZonesOf(df_coords) = {"A"}
    /\ NULL \in Range(DistrictsOf("A"))
    /\ \E r \in Range(df) : r.CUADRANTE = NULL
    /\ Len(df_mapa_pred) = 2
    /\ \E p \in Range(uploaded_file.rows) : p.CUADRANTE = "B"

\* The upload is a table with both required columns.
SchemaValid == uploaded_file.status = "csv" /\ required_cols \subseteq uploaded_file.columns

\* The prediction rows of the upload whose CUADRANTE has a row in df_coords.
Matched == SelectSeq(uploaded_file.rows, LAMBDA p : p.CUADRANTE \in ZonesOf(df_coords))

\* The error texts the upload block can show.
ErrorStates ==
    {error_processing(e) :
        e \in {"UnicodeDecodeError", "ParserError", "ValueError", "IndexError", "KeyError"}}

\* C19: a schema-valid upload that matches no zone, or fewer zones than the
\* narrative names, ends with its empty or short overlay and without the
\* error text.
C19_ShortOverlayIsNotAnError ==
    (UploadHandled /\ SchemaValid /\ Len(Matched) < NARRATIVE_N) =>
        /\ rendered \cap ErrorStates = {}
        /\ Len(df_mapa_pred) = Len(Matched)

\* C20: a schema-valid upload that matches at least three zones gets its
\* overlay rendered together with narrative and table, and never the error
\* text: create_prediction_map reads no column the column check has not seen.
C20_ValidatedUploadRenders ==
    (UploadHandled /\ SchemaValid /\ Len(Matched) >= NARRATIVE_N) =>
        /\ rendered \cap ErrorStates = {}
        /\ {"mapa_predictivo", "insight_prediccion", "tabla_predicciones"} \subseteq rendered

====
